---- MODULE Spec2Model ----
(***************************************************************************)
(* Model of triangler/edges.py: the point extractor EdgePoints (its        *)
(* constructor and get_edge_points) and the gradient-edge saliency         *)
(* algorithm Canny.compute.                                                *)
(*                                                                         *)
(* Numbers.  An image is a uint8 RGB array.  Every array of the Canny      *)
(* pipeline is kept as exact fractions with one common denominator:        *)
(* [w, h, den, v] stands for the array whose cell c holds v[c] / den.      *)
(* The floating-point result of the final division is kept as            *)
(* [kind, num, den]: the fraction num / den (den > 0) when kind is         *)
(* "finite", else one of the IEEE-754 specials "nan", "inf", "-inf" that   *)
(* numpy produces for a zero divisor.                                      *)
(***************************************************************************)
EXTENDS Integers, Sequences, FiniteSets, TLC

(***************************************************************************)
(* Bounds of the model.                                                    *)
(***************************************************************************)
MaxDim == 3
MaxN == 2
MaxBlur == 1
MaxPts == 2
MaxSpots == 1

(***************************************************************************)
(* Program constants.                                                      *)
(***************************************************************************)
\* threshold = 3 / 256 (edges.py:90)
threshold_num == 3
threshold_den == 256

EdgeMethodMembers == {"CANNY", "ENTROPY", "SOBEL"}
SampleMethodMembers == {"POISSON_DISK", "THRESHOLD"}
\* A selector that is no member of the enumeration (None, a string, ...).
Unsupported == "OTHER"

\* The function f itself, held as a table of its values: an array is computed
\* once, when it is assigned, not at each later read of a cell.
Evaluated(f) == f @@ <<>>

Min(a, b) == IF a < b THEN a ELSE b

Cells(w, h) == (0 .. w - 1) \X (0 .. h - 1)

(***************************************************************************)
(* Images: uint8 RGB pixels on a w x h grid (img.shape[0] is called the    *)
(* width by the code, img.shape[1] the height).                            *)
(***************************************************************************)
Palette == { <<0, 0, 0>>, <<1, 1, 1>>, <<255, 0, 0>> }

FlatImage(w, h, c) == [w |-> w, h |-> h, px |-> [p \in Cells(w, h) |-> c]]

\* Every image of the shape whose pixels are one background colour except
\* for at most k cells ("spots") of other colours.
ImagesWithSpots(w, h, k) ==
    UNION { UNION { { [w |-> w, h |-> h,
                       px |-> [p \in Cells(w, h) |->
                                 IF p \in S THEN col[p] ELSE bg]] :
                      col \in [S -> Palette \ {bg}] } :
                    S \in { T \in SUBSET Cells(w, h) : Cardinality(T) <= k } } :
            bg \in Palette }

IsConstantImage(im) == \A p, q \in DOMAIN im.px : im.px[p] = im.px[q]

(***************************************************************************)
(* scipy.signal.convolve2d(in1, in2, mode="same", boundary="symm").        *)
(* A kernel is [size, div, taps]: the size x size array taps[j,k] / div.   *)
(***************************************************************************)
\* Symmetric boundary: an index outside the array is reflected about the
\* border it crossed (-1 -> 0, -2 -> 1, n -> n-1, n+1 -> n-2).
ReflectIndex(i, n) ==
    IF i < 0 THEN -1 - i ELSE IF i >= n THEN 2 * n - 1 - i ELSE i

\* mode="same": the output is the centre of the full convolution.
KernelCentre(size) == (size - 1) \div 2

RECURSIVE ConvSum(_, _, _, _, _)
\* Sum over the taps t = j * size + k, for t < n, of
\* taps[j,k] * in1[x + centre - j, y + centre - k] (the kernel is flipped).
ConvSum(A, ker, x, y, n) ==
    IF n = 0 THEN 0
    ELSE LET t == n - 1
             j == t \div ker.size
             k == t % ker.size
             c == KernelCentre(ker.size)
         IN  ker.taps[<<j, k>>]
               * A.v[<<ReflectIndex(x + c - j, A.w), ReflectIndex(y + c - k, A.h)>>]
             + ConvSum(A, ker, x, y, t)

Convolve2d(A, ker) ==
    [w |-> A.w, h |-> A.h, den |-> A.den * ker.div,
     v |-> Evaluated([p \in Cells(A.w, A.h) |->
                      ConvSum(A, ker, p[1], p[2], ker.size * ker.size)])]

KernelCells(size) == (0 .. size - 1) \X (0 .. size - 1)

RECURSIVE Gcd(_, _)
Gcd(a, b) == IF b = 0 THEN a ELSE Gcd(b, a % b)

RECURSIVE GcdOver(_, _, _)
\* The greatest common divisor of g and the values of f over S (all >= 0).
GcdOver(f, S, g) ==
    IF S = {} THEN g
    ELSE LET p == CHOOSE q \in S : TRUE
         IN  GcdOver(f, S \ {p}, Gcd(g, f[p]))

\* The same array of fractions, numerators and denominator divided by their
\* greatest common divisor.
LowestTerms(A) ==
    LET g == GcdOver(A.v, DOMAIN A.v, A.den)
    IN  [A EXCEPT !.den = A.den \div g,
                  !.v = Evaluated([p \in DOMAIN A.v |-> A.v[p] \div g])]

(***************************************************************************)
(* Canny.compute(img, blur)                                                *)
(***************************************************************************)
\* skimage.color.rgb2gray on a uint8 image: the pixel is scaled to [0, 1]
\* (divided by 255) and reduced with the weights 0.2125, 0.7154, 0.0721.
\* The array is kept in lowest terms.
Rgb2Gray(im) ==
    LowestTerms([w |-> im.w, h |-> im.h, den |-> 10000 * 255,
                 v |-> Evaluated([p \in Cells(im.w, im.h) |->
                          2125 * im.px[p][1] + 7154 * im.px[p][2]
                            + 721 * im.px[p][3]])])

\* The kernel divided by (2 * blur + 2) ** 2.
BlurFiltEvenDivisor(blur) ==
    [size |-> 2 * blur + 1, div |-> (2 * blur + 2) * (2 * blur + 2),
     taps |-> [q \in KernelCells(2 * blur + 1) |-> 1]]

\* np.ones(shape=(2 * blur + 1, 2 * blur + 1)) / ((2 * blur + 1) ** 2)
BlurFilt(blur) ==
    [size |-> 2 * blur + 1, div |-> (2 * blur + 1) * (2 * blur + 1),
     taps |-> [q \in KernelCells(2 * blur + 1) |-> 1]]

\* np.array([[1, 1, 1], [1, -8, 1], [1, 1, 1]])
EdgeFilt ==
    [size |-> 3, div |-> 1,
     taps |-> [q \in KernelCells(3) |-> IF q = <<1, 1>> THEN -8 ELSE 1]]

\* np.ones((3, 3))
DenseFilt == [size |-> 3, div |-> 1, taps |-> [q \in KernelCells(3) |-> 1]]

\* val < threshold, for the cell value num / den (den > 0):
\* num * threshold_den < threshold_num * den, with the integer num on its own
\* on the left.
BelowThreshold(num, den) == num <= (threshold_num * den - 1) \div threshold_den

\* The comparison inverted: the cells at or above the threshold are cleared.
ThresholdInverted(A) ==
    [A EXCEPT !.v = Evaluated([p \in DOMAIN A.v |->
                       IF BelowThreshold(A.v[p], A.den) THEN A.v[p] ELSE 0])]

\* for idx, val in np.ndenumerate(edge): if val < threshold: edge[idx] = 0
Threshold(A) ==
    [A EXCEPT !.v = Evaluated([p \in DOMAIN A.v |->
                       IF BelowThreshold(A.v[p], A.den) THEN 0 ELSE A.v[p]])]

RECURSIVE MaxOver(_, _)
\* The largest value of f over the non-empty finite set S.
MaxOver(f, S) ==
    LET p == CHOOSE q \in S : TRUE
    IN  IF S = {p} THEN f[p]
        ELSE LET m == MaxOver(f, S \ {p})
             IN  IF f[p] > m THEN f[p] ELSE m

\* np.amax(A), as the numerator over A.den
Amax(A) == MaxOver(A.v, DOMAIN A.v)

\* The float64 quotient a / b of two finite values given by their numerators
\* over one common positive denominator; numpy returns nan or an infinity
\* for b = 0 (with a RuntimeWarning, not an exception).
Divide(a, b) ==
    IF b = 0
    THEN [kind |-> IF a = 0 THEN "nan" ELSE IF a > 0 THEN "inf" ELSE "-inf",
          num |-> 0, den |-> 0]
    ELSE IF b > 0 THEN [kind |-> "finite", num |-> a, den |-> b]
    ELSE [kind |-> "finite", num |-> -a, den |-> -b]

\* dense /= np.amax(dense)
Normalise(A) ==
    LET m == Amax(A)
    IN  [w |-> A.w, h |-> A.h,
         v |-> Evaluated([p \in DOMAIN A.v |-> Divide(A.v[p], m)])]

\* The whole of Canny.compute, every intermediate array kept.
CannyCompute(im, blur) ==
    LET gray_img  == Rgb2Gray(im)
        blur_filt == BlurFilt(blur)
        blurred   == Convolve2d(gray_img, blur_filt)
        raw       == Convolve2d(blurred, EdgeFilt)
        edge      == Threshold(raw)
        dense     == Convolve2d(edge, DenseFilt)
    IN  [gray_img |-> gray_img, blur_filt |-> blur_filt, blurred |-> blurred,
         raw |-> raw, edge |-> edge, dense |-> dense, amax |-> Amax(dense),
         outcome |-> "returned", out |-> Normalise(dense)]

(***************************************************************************)
(* EdgePoints                                                              *)
(***************************************************************************)
\* Python's round(k * 0.5) for an integer k >= 0: k * 0.5 is exact, and a
\* tie (k odd) goes to the even neighbour.
RoundHalf(k) ==
    IF k % 2 = 0 THEN k \div 2
    ELSE IF ((k - 1) \div 2) % 2 = 0 THEN (k - 1) \div 2 ELSE (k + 1) \div 2

\* Ties rounded up instead of to even.
TooManyPointsHalfUp(w, h, n) == n > (w * h + 1) \div 2

\* self.num_of_points > round(self.width * self.height * 0.5)
TooManyPoints(w, h, n) == n > RoundHalf(w * h)

NoError == [type |-> "none", text |-> "", value |-> "", enum |-> "", members |-> {}]

\* raise UserWarning("The number of points is too large")
PointCountError ==
    [type |-> "UserWarning", text |-> "The number of points is too large",
     value |-> "", enum |-> "", members |-> {}]

\* "Unexpected edge processing method: {}\nuse {} instead: {}".format(
\*     self.edge_method, SampleMethod.__name__, SampleMethod.__members__)
EdgeMethodError(method) ==
    [type |-> "ValueError", text |-> "Unexpected edge processing method",
     value |-> method, enum |-> "SampleMethod", members |-> SampleMethodMembers]

\* "Unexpected sampling method: {}\nuse {} instead: {}".format(
\*     sampling, SampleMethod.__name__, SampleMethod.__members__)
SamplingMethodError(method) ==
    [type |-> "ValueError", text |-> "Unexpected sampling method",
     value |-> method, enum |-> "SampleMethod", members |-> SampleMethodMembers]

\* The saliency algorithm the if/elif chain of get_edge_points selects
\* ("raise" for its else branch).
EdgeDispatch(method) ==
    IF method = "CANNY" THEN "Canny.compute"
    ELSE IF method = "ENTROPY" THEN "Entropy.compute"
    ELSE IF method = "SOBEL" THEN "Sobel.compute"
    ELSE "raise"

\* The else branch falling back to a strategy instead of raising.
SampleDispatchDefault(method) ==
    IF method = "POISSON_DISK" THEN "poisson_disk_sample" ELSE "threshold_sample"

\* The sampling strategy the second if/elif chain selects.
SampleDispatch(method) ==
    IF method = "POISSON_DISK" THEN "poisson_disk_sample"
    ELSE IF method = "THRESHOLD" THEN "threshold_sample"
    ELSE "raise"

NoMap == [alg |-> "none", w |-> 0, h |-> 0, v |-> <<>>]

\* The weight map the selected algorithm returns.  Canny.compute is modelled
\* cell by cell; the maps of Entropy.compute and Sobel.compute are kept by
\* their shape only.
ComputeWeights(alg, im, b) ==
    IF alg = "Canny.compute"
    THEN [alg |-> alg, w |-> im.w, h |-> im.h, v |-> CannyCompute(im, b).out.v]
    ELSE [alg |-> alg, w |-> im.w, h |-> im.h, v |-> <<>>]

\* Width and height exchanged.
CornersTransposed(w, h) == << <<0, 0>>, <<0, w - 1>>, <<h - 1, 0>>, <<h - 1, w - 1>> >>

\* np.array([[0, 0], [0, height - 1], [width - 1, 0], [width - 1, height - 1]])
Corners(w, h) == << <<0, 0>>, <<0, h - 1>>, <<w - 1, 0>>, <<w - 1, h - 1>> >>

\* np.append(sample_points, corners, axis=0)
NpAppend(points, extra) == points \o extra

\* What a sampling strategy may return for the target count n on a w x h
\* weight map: up to n points, each within the map.
SeqsUpTo(S, k) == UNION { [1 .. m -> S] : m \in 0 .. k }
SamplerResults(w, h, n) == SeqsUpTo(Cells(w, h), Min(n, MaxPts))

NoCanny == [outcome |-> "none"]

VARIABLES
    pc,             \* where the caller / the running method stands
    img,            \* self.img
    width,          \* self.width
    height,         \* self.height
    num_of_points,  \* self.num_of_points
    edge_method,    \* self.edge_method
    blur,           \* argument of the running get_edge_points / Canny.compute
    sampling,       \* argument of the running get_edge_points
    edges,          \* local of get_edge_points
    sample_points,  \* local of get_edge_points
    result,         \* value returned by get_edge_points
    error,          \* exception raised by the constructor or get_edge_points
    calls,          \* functions invoked since the running method was entered
    canny           \* the arrays of a run of Canny.compute on its own

vars == <<pc, img, width, height, num_of_points, edge_method, blur, sampling,
          edges, sample_points, result, error, calls, canny>>

NoImage == [w |-> 0, h |-> 0, px |-> <<>>]

\* The images an extractor is constructed with: per shape the flat images
\* and the black image with a red pixel at the origin.
ExtractorImages(w, h) ==
    { FlatImage(w, h, c) : c \in Palette }
    \cup { [w |-> w, h |-> h,
            px |-> [p \in Cells(w, h) |->
                      IF p = <<0, 0>> THEN <<255, 0, 0>> ELSE <<0, 0, 0>>]] }

Init ==
    /\ pc = "new"
    /\ img = NoImage
    /\ width = 0
    /\ height = 0
    /\ num_of_points = 0
    /\ edge_method = ""
    /\ blur = 0
    /\ sampling = ""
    /\ edges = NoMap
    /\ sample_points = <<>>
    /\ result = <<>>
    /\ error = NoError
    /\ calls = <<>>
    /\ canny = NoCanny

\* EdgePoints.__init__(img, n, edge)
Construct(im, n, edge) ==
    /\ pc = "new"
    /\ img' = im
    /\ width' = im.w
    /\ height' = im.h
    /\ num_of_points' = n
    /\ IF TooManyPoints(im.w, im.h, n)
       THEN /\ error' = PointCountError
            /\ edge_method' = edge_method
            /\ pc' = "init_raised"
       ELSE /\ error' = NoError
            /\ edge_method' = edge
            /\ pc' = "ready"
    /\ UNCHANGED <<blur, sampling, edges, sample_points, result, calls, canny>>

\* A caller enters get_edge_points(blur, sampling) on a constructed extractor.
Call(b, s) ==
    /\ pc \in {"ready", "returned", "raised"}
    /\ blur' = b
    /\ sampling' = s
    /\ edges' = NoMap
    /\ sample_points' = <<>>
    /\ result' = <<>>
    /\ error' = NoError
    /\ calls' = <<>>
    /\ pc' = "edges"
    /\ UNCHANGED <<img, width, height, num_of_points, edge_method, canny>>

\* The sampling selector examined before the saliency algorithm is run.
ComputeEdgesSamplingFirst ==
    /\ pc = "edges"
    /\ LET alg == EdgeDispatch(edge_method)
       IN  IF SampleDispatch(sampling) = "raise"
           THEN /\ error' = SamplingMethodError(sampling)
                /\ pc' = "raised"
                /\ UNCHANGED <<edges, calls>>
           ELSE IF alg = "raise"
           THEN /\ error' = EdgeMethodError(edge_method)
                /\ pc' = "raised"
                /\ UNCHANGED <<edges, calls>>
           ELSE /\ calls' = Append(calls, alg)
                /\ edges' = ComputeWeights(alg, img, blur)
                /\ pc' = "sampling"
                /\ UNCHANGED error
    /\ UNCHANGED <<img, width, height, num_of_points, edge_method, blur,
                   sampling, sample_points, result, canny>>

\* get_edge_points, the dispatch on self.edge_method
ComputeEdges ==
    /\ pc = "edges"
    /\ LET alg == EdgeDispatch(edge_method)
       IN  IF alg = "raise"
           THEN /\ error' = EdgeMethodError(edge_method)
                /\ pc' = "raised"
                /\ UNCHANGED <<edges, calls>>
           ELSE /\ calls' = Append(calls, alg)
                /\ edges' = ComputeWeights(alg, img, blur)
                /\ pc' = "sampling"
                /\ UNCHANGED error
    /\ UNCHANGED <<img, width, height, num_of_points, edge_method, blur,
                   sampling, sample_points, result, canny>>

\* get_edge_points, the dispatch on sampling when the strategy returns
\* points, the corners and the return
Sample(points) ==
    /\ pc = "sampling"
    /\ SampleDispatch(sampling) # "raise"
    /\ calls' = Append(calls, SampleDispatch(sampling))
    /\ sample_points' = points
    /\ result' = NpAppend(points, Corners(width, height))
    /\ pc' = "returned"
    /\ UNCHANGED <<img, width, height, num_of_points, edge_method, blur,
                   sampling, edges, error, canny>>

\* get_edge_points, the dispatch on sampling: the strategy raises, and the
\* exception propagates
SampleFails ==
    /\ pc = "sampling"
    /\ SampleDispatch(sampling) # "raise"
    /\ calls' = Append(calls, SampleDispatch(sampling))
    /\ error' = [type |-> "SamplerError", text |-> "", value |-> sampling,
                 enum |-> "", members |-> {}]
    /\ pc' = "raised"
    /\ UNCHANGED <<img, width, height, num_of_points, edge_method, blur,
                   sampling, edges, sample_points, result, canny>>

\* get_edge_points, the else branch of the dispatch on sampling
SampleUnsupported ==
    /\ pc = "sampling"
    /\ SampleDispatch(sampling) = "raise"
    /\ error' = SamplingMethodError(sampling)
    /\ pc' = "raised"
    /\ UNCHANGED <<img, width, height, num_of_points, edge_method, blur,
                   sampling, edges, sample_points, result, calls, canny>>

Shapes == (1 .. MaxDim) \X (1 .. MaxDim)

\* Blur radii whose kernel stays within one reflection of the image border.
BlurRadii(w, h) == 0 .. Min(MaxBlur, Min(w, h))

Next ==
    \/ /\ pc = "new"
       /\ \E sh \in Shapes : \E im \in ExtractorImages(sh[1], sh[2]) :
            \E n \in 0 .. MaxN : \E e \in EdgeMethodMembers \cup {Unsupported} :
              Construct(im, n, e)
    \/ /\ pc \in {"ready", "returned", "raised"}
       /\ \E b \in BlurRadii(width, height) :
            \E s \in SampleMethodMembers \cup {Unsupported} : Call(b, s)
    \/ ComputeEdges
    \/ /\ pc = "sampling"
       /\ \E points \in SamplerResults(width, height, num_of_points) :
            Sample(points)
    \/ SampleFails
    \/ SampleUnsupported

Spec == Init /\ [][Next]_vars

(***************************************************************************)
(* Canny.compute on its own: the image and the blur radius are drawn, the  *)
(* function is applied.                                                    *)
(***************************************************************************)
CannyImages == UNION { ImagesWithSpots(sh[1], sh[2], MaxSpots) : sh \in Shapes }

InitCanny ==
    /\ pc = "canny"
    /\ img \in CannyImages
    /\ width = img.w
    /\ height = img.h
    /\ blur \in BlurRadii(img.w, img.h)
    /\ num_of_points = 0
    /\ edge_method = "CANNY"
    /\ sampling = ""
    /\ edges = NoMap
    /\ sample_points = <<>>
    /\ result = <<>>
    /\ error = NoError
    /\ calls = <<>>
    /\ canny = NoCanny

CannyRun ==
    /\ pc = "canny"
    /\ canny' = CannyCompute(img, blur)
    /\ pc' = "canny_done"
    /\ UNCHANGED <<img, width, height, num_of_points, edge_method, blur,
                   sampling, edges, sample_points, result, error, calls>>

NextCanny == CannyRun

SpecCanny == InitCanny /\ [][NextCanny]_vars

(***************************************************************************)
(* Properties                                                              *)
(***************************************************************************)
Constructed == pc \notin {"new", "init_raised", "canny", "canny_done"}
InCall == pc \in {"edges", "sampling", "returned", "raised"}
SaliencyNames == {"Canny.compute", "Entropy.compute", "Sobel.compute"}
SamplerNames == {"poisson_disk_sample", "threshold_sample"}
CallsOf(names) == { i \in 1 .. Len(calls) : calls[i] \in names }

\* r is k / 2 rounded to the nearest integer, a tie going to the even one.
IsRoundOfHalf(r, k) ==
    \/ 2 * r = k
    \/ k % 2 = 1 /\ r % 2 = 0 /\ (2 * r = k - 1 \/ 2 * r = k + 1)

\* C1: construction with N > round(W*H*0.5) fails with the excessive point
\* count error, construction with N <= round(W*H*0.5) succeeds, and in both
\* cases no saliency algorithm and no sampling strategy has been invoked when
\* the constructor is left.
C1_ConstructionValidatesCount ==
    pc \in {"init_raised", "ready"} =>
        /\ \E r \in 0 .. width * height :
             /\ IsRoundOfHalf(r, width * height)
             /\ (pc = "init_raised") = (num_of_points > r)
        /\ (pc = "init_raised") = (error = PointCountError)
        /\ pc = "ready" => error = NoError
        /\ calls = <<>>
        /\ edges = NoMap
        /\ sample_points = <<>>

\* A construction that fails on a tie: one pixel, one point.
C1_Witness ==
    /\ pc = "init_raised"
    /\ width * height = 1
    /\ num_of_points = 1
    /\ calls = <<>>

\* C2: when get_edge_points returns, the result is the k sampled points in
\* their order followed by (0,0), (0,H-1), (W-1,0), (W-1,H-1).
C2_ResultIsSamplesThenCorners ==
    pc = "returned" =>
        LET k == Len(sample_points)
        IN  /\ Len(result) = k + 4
            /\ \A i \in 1 .. k : result[i] = sample_points[i]
            /\ result[k + 1] = <<0, 0>>
            /\ result[k + 2] = <<0, img.h - 1>>
            /\ result[k + 3] = <<img.w - 1, 0>>
            /\ result[k + 4] = <<img.w - 1, img.h - 1>>

\* A return with two different sampled points on a non-square image.
C2_Witness ==
    /\ pc = "returned"
    /\ Len(sample_points) = 2
    /\ sample_points[1] # sample_points[2]
    /\ img.w # img.h

\* C3 (as claimed): on a solid-colour image the densified map is uniformly
\* zero and Canny.compute ends in a DegenerateWeightMap error, returning no
\* weight map.
C3_FlatImageRaisesDegenerate ==
    (pc = "canny_done" /\ IsConstantImage(img)) =>
        /\ \A p \in DOMAIN canny.dense.v : canny.dense.v[p] = 0
        /\ canny.outcome = "DegenerateWeightMap"

GrayIsConstant(c) ==
    \A p, q \in DOMAIN c.gray_img.v : c.gray_img.v[p] = c.gray_img.v[q]

\* The map's maximum is exactly 1.0: every cell is a number <= 1, and one is 1.
MaxIsOne(m) ==
    /\ \A p \in DOMAIN m.v : m.v[p].kind = "finite" /\ m.v[p].num <= m.v[p].den
    /\ \E p \in DOMAIN m.v : m.v[p].kind = "finite" /\ m.v[p].num = m.v[p].den

\* Some raw Laplacian response is at least 3/256.
SomeResponseKept(c) ==
    \E p \in DOMAIN c.raw.v : 256 * c.raw.v[p] >= 3 * c.raw.den

\* C4 (as claimed): for every non-constant image the maximum the densified
\* map is divided by is strictly positive and the returned map has maximum
\* exactly 1.0.
C4_NonConstantHasMaxOne ==
    (pc = "canny_done" /\ ~GrayIsConstant(canny)) =>
        /\ canny.amax > 0
        /\ MaxIsOne(canny.out)

\* C4 (amended): the divisor is strictly positive, and the returned map has
\* maximum exactly 1.0, exactly when some raw Laplacian response of the
\* blurred image is at least 3/256.
C4_MaxOneIffResponseKept ==
    pc = "canny_done" =>
        /\ (canny.amax > 0) = SomeResponseKept(canny)
        /\ MaxIsOne(canny.out) = SomeResponseKept(canny)

\* A non-constant image whose map has maximum 1.0.
C4_Witness ==
    /\ pc = "canny_done"
    /\ ~GrayIsConstant(canny)
    /\ SomeResponseKept(canny)
    /\ MaxIsOne(canny.out)

\* C5 (as claimed): an unsupported algorithm selector fails with an error
\* that names the EdgeMethod enumeration and its members, nothing invoked.
C5_EdgeErrorNamesEdgeMethod ==
    (pc = "raised" /\ edge_method \notin EdgeMethodMembers) =>
        /\ error.type = "ValueError"
        /\ error.text = "Unexpected edge processing method"
        /\ error.enum = "EdgeMethod"
        /\ error.members = EdgeMethodMembers
        /\ calls = <<>>

\* C6 (as claimed): construction fails whenever 2*N > W*H, so a constructed
\* extractor satisfies 2*N <= W*H.
C6_AtMostHalfThePixels ==
    /\ (pc # "new" /\ pc # "canny" /\ pc # "canny_done"
          /\ 2 * num_of_points > width * height) => pc = "init_raised"
    /\ Constructed => 2 * num_of_points <= width * height

\* C6 (amended): construction fails exactly when N > round(W*H*0.5), the
\* half being rounded to the nearest integer and a tie going to the even
\* one: for W*H = 3 mod 4 it fails exactly when 2*N > W*H + 1, for every
\* other W*H exactly when 2*N > W*H.  So a constructed extractor satisfies
\* 2*N <= W*H, except that N = (W*H + 1) / 2 is accepted when W*H = 3 mod 4.
C6_AtMostRoundedHalf ==
    LET k == width * height
        exceeds == IF k % 4 = 3 THEN 2 * num_of_points > k + 1
                   ELSE 2 * num_of_points > k
    IN  /\ pc \in {"init_raised", "ready"} =>
              /\ (pc = "init_raised") = exceeds
              /\ exceeds => error = PointCountError
        /\ Constructed => ~exceeds
        /\ (Constructed /\ k % 4 # 3) => 2 * num_of_points <= k
        /\ (Constructed /\ k % 4 = 3) => 2 * num_of_points <= k + 1

\* An extractor constructed on a tie rounded up: 3 pixels, 2 points.
C6_Witness ==
    /\ pc = "ready"
    /\ width * height = 3
    /\ num_of_points = 2
    /\ error = NoError

\* C7: with a supported algorithm selector and an unsupported sampling
\* selector the call fails with the unsupported-sampling-method error; no
\* sampling strategy is invoked and no points are returned.
C7_UnsupportedSamplingFails ==
    (InCall /\ edge_method \in EdgeMethodMembers
            /\ sampling \notin SampleMethodMembers) =>
        /\ pc \in {"edges", "sampling", "raised"}
        /\ CallsOf(SamplerNames) = {}
        /\ sample_points = <<>>
        /\ result = <<>>
        /\ pc = "raised" =>
             /\ error.type = "ValueError"
             /\ error.text = "Unexpected sampling method"
             /\ error.value = sampling

\* A call that failed on the sampling selector after Canny.compute ran.
C7_Witness ==
    /\ pc = "raised"
    /\ edge_method = "CANNY"
    /\ sampling \notin SampleMethodMembers
    /\ error.text = "Unexpected sampling method"

\* C8: with blur radius 0 the averaging kernel is the 1x1 kernel of value 1
\* and the array fed to the Laplacian step equals the grayscale image cell
\* for cell.
C8_BlurZeroIsIdentity ==
    (pc = "canny_done" /\ blur = 0) =>
        /\ canny.blur_filt.size = 1
        /\ canny.blur_filt.div = 1
        /\ canny.blur_filt.taps[<<0, 0>>] = 1
        /\ canny.blurred.den = canny.gray_img.den
        /\ \A p \in Cells(img.w, img.h) :
             canny.blurred.v[p] = canny.gray_img.v[p]

\* A run with blur radius 0 on a non-constant image.
C8_Witness ==
    /\ pc = "canny_done"
    /\ blur = 0
    /\ ~GrayIsConstant(canny)

\* C9 (as claimed): after the threshold every cell is 0 (raw response below
\* 3/256) or its raw response (at least 3/256); every cell of the densified
\* map is non-negative; every cell of the returned map lies in [0, 1].
C9_CellsWithinUnitInterval ==
    pc = "canny_done" =>
        /\ \A p \in DOMAIN canny.raw.v :
             canny.edge.v[p] =
                 IF 256 * canny.raw.v[p] < 3 * canny.raw.den
                 THEN 0 ELSE canny.raw.v[p]
        /\ \A p \in DOMAIN canny.dense.v : canny.dense.v[p] >= 0
        /\ \A p \in DOMAIN canny.out.v :
             /\ canny.out.v[p].kind = "finite"
             /\ 0 <= canny.out.v[p].num
             /\ canny.out.v[p].num <= canny.out.v[p].den

\* The saliency algorithm that belongs to a selector.
AlgorithmOf(method) ==
    CASE method = "CANNY" -> "Canny.compute"
      [] method = "ENTROPY" -> "Entropy.compute"
      [] method = "SOBEL" -> "Sobel.compute"
      [] OTHER -> "none"

SamplerOf(method) ==
    CASE method = "POISSON_DISK" -> "poisson_disk_sample"
      [] method = "THRESHOLD" -> "threshold_sample"
      [] OTHER -> "none"

\* C10: the algorithm selector is checked first, then the one matching
\* saliency algorithm is invoked once and returns, and only then is the
\* sampling selector examined: with both selectors unsupported the error is
\* the unsupported-algorithm one, with only the sampling selector unsupported
\* the algorithm has run once before the error, and a sampling strategy is
\* only ever invoked after the algorithm returned.
C10_FixedOrderOfSteps ==
    InCall =>
        /\ pc = "edges" => calls = <<>>
        /\ pc = "sampling" =>
             /\ calls = <<AlgorithmOf(edge_method)>>
             /\ edges.alg = AlgorithmOf(edge_method)
        /\ pc = "returned" =>
             calls = <<AlgorithmOf(edge_method), SamplerOf(sampling)>>
        /\ (pc = "raised" /\ edge_method \notin EdgeMethodMembers) =>
             /\ error.text = "Unexpected edge processing method"
             /\ calls = <<>>
             /\ edges = NoMap
        /\ (pc = "raised" /\ edge_method \in EdgeMethodMembers
                          /\ sampling \notin SampleMethodMembers) =>
             /\ error.text = "Unexpected sampling method"
             /\ calls = <<AlgorithmOf(edge_method)>>
             /\ edges.alg = AlgorithmOf(edge_method)
        /\ \A i \in CallsOf(SamplerNames) :
             /\ i = 2
             /\ calls[1] = AlgorithmOf(edge_method)
             /\ edges.alg = AlgorithmOf(edge_method)
        /\ Cardinality(CallsOf(SaliencyNames)) <= 1

\* A call that failed with both selectors unsupported.
C10_Witness ==
    /\ pc = "raised"
    /\ edge_method \notin EdgeMethodMembers
    /\ sampling \notin SampleMethodMembers
    /\ error.text = "Unexpected edge processing method"

====
